---- MODULE Spec2Model ----
(***************************************************************************)
(* Model of src/src/merge_future.rs: FuturesMergerMemoryOwner (the Cell),  *)
(* FuturesMerger (the Session) and FuturesMergerAwait (the Handle).        *)
(*                                                                         *)
(* A block is named by its address (0 is "no block").  The allocator is    *)
(* the set `heap` of live allocations, each with the element layout and    *)
(* the capacity it was allocated for; a released address can be handed out *)
(* again.  An operation (future) is opaque: what a poll of it returns      *)
(* (Pending, Ready(Ok), Ready(Err)) is chosen by its environment at each   *)
(* poll, given to a scan as a function o from operation ids to outcomes.   *)
(* The error value of a failing operation is its id, so errors of          *)
(* different operations are different.                                     *)
(* Operation types have a non-zero size.  to_poll is a Vec<usize> of its   *)
(* own whose allocation never changes hands; only its contents are state.  *)
(***************************************************************************)
EXTENDS Integers, Sequences, FiniteSets, TLC

\* ---- bounds -------------------------------------------------------------
MaxOps == 3        \* pushes per Session, and the largest capacity of a Vec
MaxScans == 2      \* polls of one Handle

\* ---- operation types and their layouts ---------------------------------
Types == {"A", "B", "C"}
NoType == "none"
NoLayout == <<>>
NoBlock == 0
NoErr == -1

\* get_layout::<T>(): (size, alignment).  C has the layout of A; B differs.
get_layout(T) ==
    CASE T = "A" -> <<8, 8>>
      [] T = "B" -> <<16, 8>>
      [] T = "C" -> <<8, 8>>

VARIABLES
    \* FuturesMergerMemoryOwner
    data, capacity, to_poll, layout, drop_fn, ownerAlive,
    \* FuturesMerger (sess = its type F, NoType when there is none)
    sess, futures_ptr, futures, futures_cap,
    \* FuturesMergerAwait: "none", "live" (not yet Ready), "resolved"
    await,
    \* allocator
    heap, ub,
    \* observations
    lastBorrow, last, nPushed, okSet, discarded, hadHandle, scans,
    bound, overReserved, cancelled, prevEnd, usedLayouts, recLayouts

vars == <<data, capacity, to_poll, layout, drop_fn, ownerAlive,
          sess, futures_ptr, futures, futures_cap, await,
          heap, ub,
          lastBorrow, last, nPushed, okSet, discarded, hadHandle, scans,
          bound, overReserved, cancelled, prevEnd, usedLayouts, recLayouts>>

\* ---- allocator ----------------------------------------------------------
Block(p, lay, cap) == [id |-> p, lay |-> lay, cap |-> cap]

\* dealloc of block p as an array of cap elements of layout lay; freeing a
\* block that is not live, or with another layout or size, is undefined.
FreeOk(p, lay, cap) == Block(p, lay, cap) \in heap
HeapFree(p, lay, cap) == heap \ {Block(p, lay, cap)}
\* The address of a new allocation: one that no live block has.
FreshAddr == CHOOSE a \in 1..(Cardinality(heap) + 1) : \A b \in heap : b.id # a

\* ---- operations ---------------------------------------------------------
Outcomes == {"pending", "ok", "err"}
\* polls counts the calls of F::poll on the operation.
Op(id) == [id |-> id, done |-> FALSE, polls |-> 0]

\* What the operations that are not finished answer in one scan.
Unfinished(futs) == {futs[k].id : k \in {j \in 1..Len(futs) : ~futs[j].done}}
Oracles(futs) == [Unfinished(futs) -> Outcomes]

\* F::poll of one operation whose answer is out: the outcome and the
\* operation afterwards.  A finished operation must not be polled again.
PollFuture(f, out) ==
    IF f.done THEN [out |-> "repoll", fut |-> f]
    ELSE [out |-> out,
          fut |-> [f EXCEPT !.done = (out # "pending"), !.polls = f.polls + 1]]

\* Vec::swap_remove(i), i counted from 0.
\* Variants with a slip: the last entry is removed instead of being moved
\* into position i; nothing is removed.
swap_remove_truncates(s, i) == SubSeq(s, 1, Len(s) - 1)

swap_remove_keeps(s, i) == s

swap_remove(s, i) ==
    LET n == Len(s) IN
    [k \in 1..(n - 1) |-> IF k = i + 1 THEN s[n] ELSE s[k]]

\* After the loop (lines 180-186): Pending if some operation was Pending,
\* else both Vecs are cleared and the result is Ready(Ok(())).
\* Variant with a slip: the pending flag is not looked at.
AfterScanIgnoresPending(tp, futs, pending, log) ==
    [res |-> "ok", err |-> NoErr, tp |-> <<>>, futs |-> <<>>, log |-> log]

\* Variant with a slip: Pending as long as futures is not empty.
AfterScanWhileFutures(tp, futs, pending, log) ==
    IF pending \/ Len(futs) > 0
    THEN [res |-> "pending", err |-> NoErr, tp |-> tp, futs |-> futs, log |-> log]
    ELSE [res |-> "ok", err |-> NoErr, tp |-> <<>>, futs |-> <<>>, log |-> log]

AfterScan(tp, futs, pending, log) ==
    IF pending
    THEN [res |-> "pending", err |-> NoErr, tp |-> tp, futs |-> futs, log |-> log]
    ELSE [res |-> "ok", err |-> NoErr, tp |-> <<>>, futs |-> <<>>, log |-> log]

\* Poll::Ready(Err(e)) of operation id (lines 168-172): both Vecs are cleared
\* and the poll returns Ready(Err(e)) at once.
\* Variants with a slip: the Vecs are not cleared; the error returned is that
\* of the operation in the first slot of futures; Ready(Ok) is returned.
OnErrKeepsVecs(id, tp, futs, log) ==
    [res |-> "err", err |-> id, tp |-> tp, futs |-> futs, log |-> log]

OnErrOfFirstSlot(id, tp, futs, log) ==
    [res |-> "err", err |-> futs[1].id, tp |-> <<>>, futs |-> <<>>, log |-> log]

OnErrReturnsOk(id, tp, futs, log) ==
    [res |-> "ok", err |-> NoErr, tp |-> <<>>, futs |-> <<>>, log |-> log]

OnErr(id, tp, futs, log) ==
    [res |-> "err", err |-> id, tp |-> <<>>, futs |-> <<>>, log |-> log]

\* The loop index after an operation at index i returned Ready(Ok) and
\* to_poll.swap_remove(i) (lines 165-167): i is not advanced, the index moved
\* into position i is looked at next.
\* Variant with a slip: i is advanced as after Pending.
AfterOkIndexAdvances(i) == i + 1

AfterOkIndex(i) == i

\* The while loop of FuturesMergerAwait::poll (lines 158-178).  i is the loop
\* index (from 0), tp is to_poll, futs is futures, pending the flag, log the
\* sequence of <<operation id, outcome>> polled so far, o the answers of the
\* operations.  An index outside futs (get_unchecked_mut) or a poll of a
\* finished operation is undefined: the scan ends with res = "ub".
RECURSIVE Scan(_, _, _, _, _, _)
Scan(i, tp, futs, pending, log, o) ==
    IF i >= Len(tp)
    THEN AfterScan(tp, futs, pending, log)
    ELSE LET idx == tp[i + 1] IN
         IF idx >= Len(futs)
         THEN [res |-> "ub", err |-> NoErr, tp |-> tp, futs |-> futs, log |-> log]
         ELSE LET f == futs[idx + 1]
                  r == PollFuture(f, IF f.done THEN "ok" ELSE o[f.id])
                  futs2 == [futs EXCEPT ![idx + 1] = r.fut]
                  log2 == Append(log, <<r.fut.id, r.out>>)
              IN  CASE r.out = "ok" ->
                         Scan(AfterOkIndex(i), swap_remove(tp, i), futs2, pending, log2, o)
                    [] r.out = "err" -> OnErr(r.fut.id, tp, futs2, log2)
                    [] r.out = "pending" -> Scan(i + 1, tp, futs2, TRUE, log2, o)
                    [] OTHER ->
                         [res |-> "ub", err |-> NoErr, tp |-> tp, futs |-> futs2, log |-> log2]

NoPoll == [res |-> "none", err |-> NoErr, log |-> <<>>]
NoBorrow == [F |-> NoType, ok |-> TRUE, old |-> NoLayout, new |-> NoLayout]
NoBound == [ptr |-> NoBlock, cap |-> 0]
NoPrev == [ptr |-> NoBlock, cap |-> 0, cancelled |-> FALSE]

\* ---- FuturesMergerMemoryOwner::default ----------------------------------
Init ==
    /\ data = NoBlock /\ capacity = 0 /\ to_poll = <<>>
    /\ layout = NoLayout /\ drop_fn = NoType /\ ownerAlive = TRUE
    /\ sess = NoType /\ futures_ptr = NoBlock /\ futures = <<>> /\ futures_cap = 0
    /\ await = "none"
    /\ heap = {} /\ ub = FALSE
    /\ lastBorrow = NoBorrow /\ last = NoPoll
    /\ nPushed = 0 /\ okSet = {} /\ discarded = 0 /\ hadHandle = FALSE /\ scans = 0
    /\ bound = NoBound /\ overReserved = FALSE /\ cancelled = FALSE
    /\ prevEnd = NoPrev /\ usedLayouts = {} /\ recLayouts = {}

\* ---- FuturesMergerMemoryOwner::borrow::<F, E> ---------------------------
\* The layout check of borrow (lines 73-78).
\* Variant with a slip: only the alignments are compared.
WrongLayoutAlignOnly(F) == layout # NoLayout /\ layout[2] # get_layout(F)[2]

WrongLayout(F) == layout # NoLayout /\ layout # get_layout(F)

\* The Cell's data after a borrow that returned Err: the early return comes
\* before data.take().  (Variant with a slip: data is taken first.)
BorrowErrDataTaken == NoBlock

BorrowErrData == data

BorrowErr(F) ==
    /\ ownerAlive /\ sess = NoType
    /\ WrongLayout(F)
    /\ lastBorrow' = [F |-> F, ok |-> FALSE, old |-> layout, new |-> get_layout(F)]
    /\ data' = BorrowErrData
    /\ UNCHANGED <<capacity, to_poll, layout, drop_fn, ownerAlive,
                   sess, futures_ptr, futures, futures_cap, await,
                   heap, ub, last, nPushed, okSet, discarded, hadHandle, scans,
                   bound, overReserved, cancelled, prevEnd, usedLayouts, recLayouts>>

\* data.take() and Vec::from_raw_parts(ptr, 0, self.capacity): undefined
\* unless ptr is a live allocation of exactly capacity elements of F's layout.
BorrowOk(F) ==
    /\ ownerAlive /\ sess = NoType
    /\ ~WrongLayout(F)
    /\ sess' = F
    /\ futures_ptr' = data
    /\ futures_cap' = IF data = NoBlock THEN 0 ELSE capacity
    /\ futures' = <<>>
    /\ data' = NoBlock
    /\ ub' = (ub \/ (data # NoBlock /\ ~FreeOk(data, get_layout(F), capacity)))
    /\ lastBorrow' = [F |-> F, ok |-> TRUE, old |-> layout, new |-> get_layout(F)]
    /\ bound' = [ptr |-> futures_ptr', cap |-> futures_cap']
    /\ last' = NoPoll /\ nPushed' = 0 /\ okSet' = {} /\ discarded' = 0
    /\ hadHandle' = FALSE /\ scans' = 0
    /\ overReserved' = FALSE /\ cancelled' = FALSE
    /\ UNCHANGED <<capacity, to_poll, layout, drop_fn, ownerAlive, await,
                   heap, prevEnd, usedLayouts, recLayouts>>

\* ---- Vec growth (std): after growing, capacity >= the needed length -----
GrowTo(cap, need) ==
    IF need <= cap THEN {cap}
    ELSE need..(IF need > MaxOps THEN need ELSE MaxOps)

\* The backing array of futures is (re)allocated for newcap elements: the old
\* block, if any, is released and a new allocation made.
Realloc(newcap) ==
    IF newcap = futures_cap
    THEN UNCHANGED <<futures_ptr, futures_cap, heap, ub>>
    ELSE /\ futures_cap' = newcap
         /\ futures_ptr' = FreshAddr
         /\ heap' = (IF futures_ptr = NoBlock THEN heap
                     ELSE HeapFree(futures_ptr, get_layout(sess), futures_cap))
                    \cup {Block(FreshAddr, get_layout(sess), newcap)}
         /\ ub' = (ub \/ (futures_ptr # NoBlock
                          /\ ~FreeOk(futures_ptr, get_layout(sess), futures_cap)))

\* ---- FuturesMerger::push ------------------------------------------------
\* The index pushed to to_poll (line 115), futures already holding the new
\* operation.  (Variant with a slip: the length is pushed.)
PushIndexIsLen == Len(futures')

PushIndex == Len(futures') - 1

Push ==
    /\ sess # NoType /\ await = "none"
    /\ nPushed < MaxOps
    /\ \E newcap \in GrowTo(futures_cap, Len(futures) + 1) : Realloc(newcap)
    /\ futures' = Append(futures, Op(nPushed))
    /\ to_poll' = Append(to_poll, PushIndex)
    /\ nPushed' = nPushed + 1
    /\ UNCHANGED <<data, capacity, layout, drop_fn, ownerAlive, sess, await,
                   lastBorrow, last, okSet, discarded, hadHandle, scans,
                   bound, overReserved, cancelled, prevEnd, usedLayouts, recLayouts>>

\* ---- FuturesMerger::reserve ---------------------------------------------
Reserve(additional) ==
    /\ sess # NoType /\ await = "none"
    /\ Len(futures) + additional <= MaxOps
    /\ \E newcap \in GrowTo(futures_cap, Len(futures) + additional) : Realloc(newcap)
    /\ overReserved' = (overReserved \/ Len(futures) + additional > futures_cap)
    /\ UNCHANGED <<data, capacity, to_poll, layout, drop_fn, ownerAlive,
                   sess, futures, await,
                   lastBorrow, last, nPushed, okSet, discarded, hadHandle, scans,
                   bound, cancelled, prevEnd, usedLayouts, recLayouts>>

\* ---- FuturesMerger::run -------------------------------------------------
Run ==
    /\ sess # NoType /\ await = "none"
    /\ await' = "live"
    /\ scans' = 0
    /\ last' = NoPoll
    /\ UNCHANGED <<data, capacity, to_poll, layout, drop_fn, ownerAlive,
                   sess, futures_ptr, futures, futures_cap,
                   heap, ub, lastBorrow, nPushed, okSet, discarded, hadHandle,
                   bound, overReserved, cancelled, prevEnd, usedLayouts, recLayouts>>

\* ---- FuturesMergerAwait::poll -------------------------------------------
\* One poll of the Handle by its driver, the operations answering o.  A
\* Handle that returned Ready is not polled again (the contract of
\* Future::poll).
LogIds(log, out) == {log[k][1] : k \in {j \in 1..Len(log) : log[j][2] = out}}

\* let mut pending = false (line 158).  (Variant with a slip: it starts set.)
PendingAtStartSet == TRUE

PendingAtStart == FALSE

PollAwait(o) ==
    /\ await = "live"
    /\ scans < MaxScans
    /\ \E r \in {Scan(0, to_poll, futures, PendingAtStart, <<>>, o)} :
         /\ to_poll' = r.tp
         /\ futures' = r.futs
         /\ last' = [res |-> r.res, err |-> r.err, log |-> r.log]
         /\ okSet' = okSet \cup LogIds(r.log, "ok")
         /\ await' = IF r.res = "pending" THEN "live" ELSE "resolved"
         /\ ub' = (ub \/ r.res = "ub")
    /\ scans' = scans + 1
    /\ UNCHANGED <<data, capacity, layout, drop_fn, ownerAlive,
                   sess, futures_ptr, futures_cap, heap,
                   lastBorrow, nPushed, discarded, hadHandle,
                   bound, overReserved, cancelled, prevEnd, usedLayouts, recLayouts>>

\* ---- Drop for FuturesMergerAwait ----------------------------------------
\* futures after self.futures.clear() (line 192).  (Variant with a slip:
\* only to_poll is cleared.)
DropAwaitFuturesKept == futures

DropAwaitFutures == <<>>

DropAwait ==
    /\ await # "none"
    /\ futures' = DropAwaitFutures
    /\ to_poll' = <<>>
    /\ await' = "none"
    /\ cancelled' = (cancelled \/ (await = "live" /\ scans >= 1))
    /\ hadHandle' = TRUE
    /\ discarded' = nPushed
    /\ last' = NoPoll
    /\ scans' = 0
    /\ UNCHANGED <<data, capacity, layout, drop_fn, ownerAlive,
                   sess, futures_ptr, futures_cap, heap, ub,
                   lastBorrow, nPushed, okSet,
                   bound, overReserved, prevEnd, usedLayouts, recLayouts>>

\* ---- Drop for FuturesMerger ---------------------------------------------
\* The pieces of the drop: to_poll after clear() (line 134), the pointer and
\* the capacity handed back to the Cell (lines 136, 142, 143), and the test
\* that decides whether layout and drop_fn are recorded (line 145).  Each is
\* preceded by a variant with a slip: to_poll not cleared, the pointer not
\* stored, the length stored as the capacity, the type recorded by every drop.
DropMergerToPollKept == to_poll

DropMergerToPoll == <<>>

DropMergerDataForgotten == NoBlock

DropMergerData == futures_ptr

DropMergerCapacityIsLen == Len(futures')

DropMergerCapacity == futures_cap

DropMergerRecordsAlways == TRUE

DropMergerRecords == drop_fn = NoType

DropMerger ==
    /\ sess # NoType /\ await = "none"
    /\ futures' = <<>>
    /\ to_poll' = DropMergerToPoll
    /\ IF futures_cap = 0
       THEN UNCHANGED <<data, capacity, layout, drop_fn>>
       ELSE /\ data' = DropMergerData
            /\ capacity' = DropMergerCapacity
            /\ IF DropMergerRecords
               THEN layout' = get_layout(sess) /\ drop_fn' = sess
               ELSE UNCHANGED <<layout, drop_fn>>
    /\ sess' = NoType /\ futures_ptr' = NoBlock /\ futures_cap' = 0
    /\ prevEnd' = [ptr |-> futures_ptr, cap |-> futures_cap,
                   cancelled |-> cancelled]
    /\ usedLayouts' = usedLayouts \cup {get_layout(sess)}
    /\ recLayouts' = IF futures_cap = 0 THEN recLayouts ELSE recLayouts \cup {get_layout(sess)}
    /\ lastBorrow' = NoBorrow
    /\ UNCHANGED <<ownerAlive, await, heap, ub,
                   last, nPushed, okSet, discarded, hadHandle, scans,
                   bound, overReserved, cancelled>>

\* ---- Drop for FuturesMergerMemoryOwner, and drop_vec::<T> ---------------
\* drop_fn is called if it is set (line 106) and drop_vec releases the block
\* if there is one (line 221).  (Variant with a slip: nothing is released.)
DropOwnerNeverFrees == FALSE

DropOwnerFrees == drop_fn # NoType /\ data # NoBlock

DropOwner ==
    /\ ownerAlive /\ sess = NoType
    /\ ownerAlive' = FALSE
    /\ drop_fn' = NoType
    /\ IF DropOwnerFrees
       THEN /\ heap' = HeapFree(data, get_layout(drop_fn), capacity)
            /\ ub' = (ub \/ ~FreeOk(data, get_layout(drop_fn), capacity))
       ELSE UNCHANGED <<heap, ub>>
    /\ UNCHANGED <<data, capacity, to_poll, layout,
                   sess, futures_ptr, futures, futures_cap, await,
                   lastBorrow, last, nPushed, okSet, discarded, hadHandle, scans,
                   bound, overReserved, cancelled, prevEnd, usedLayouts, recLayouts>>

Next ==
    \/ \E F \in Types : BorrowErr(F)
    \/ \E F \in Types : BorrowOk(F)
    \/ Push
    \/ \E n \in 0..MaxOps : Reserve(n)
    \/ Run
    \/ \E o \in Oracles(futures) : PollAwait(o)
    \/ DropAwait
    \/ DropMerger
    \/ DropOwner

Spec == Init /\ [][Next]_vars

\* ---- the driver that never cancels: used for the liveness of the Handle --
\* The loop of the FuturesMerger example (lines 38-48) with one operation
\* type: borrow, push, run, await, drop.  A Handle is dropped only once it has
\* resolved, the driver polls a Handle again whenever it can (weak fairness),
\* and every operation succeeds after finitely many polls: none answers Err,
\* and none answers Pending in the last poll the driver makes.
DropResolved == await = "resolved" /\ DropAwait

WillSucceed(o) ==
    \A id \in DOMAIN o :
        /\ o[id] # "err"
        /\ o[id] = "pending" => scans + 1 < MaxScans

PollSucceeding == \E o \in Oracles(futures) : WillSucceed(o) /\ PollAwait(o)

LiveNext ==
    \/ BorrowOk("A")
    \/ Push
    \/ Run
    \/ PollSucceeding
    \/ DropResolved
    \/ DropMerger

LiveSpec == Init /\ [][LiveNext]_vars /\ WF_vars(PollSucceeding)

\* ---- helpers of the properties ------------------------------------------
Pushed == 0..(nPushed - 1)
FirstHandle == await # "none" /\ ~hadHandle
LiveBlock(p, lay, cap) == IF p = NoBlock THEN {} ELSE {Block(p, lay, cap)}
SessionEnds == sess # NoType /\ sess' = NoType
SessionStarts == sess = NoType /\ sess' # NoType
SameBlock == futures_ptr = bound.ptr /\ futures_cap = bound.cap

\* C1. Completion safety: with K operations pushed and then one Handle
\* polled, a poll returns Ready(Ok) only if every one of the K operations has
\* returned Ready(Ok) by the end of that scan, and returns Pending exactly
\* when no operation failed in the scan and some operation polled in the scan
\* returned Pending.
C1_CompletionSafety ==
    FirstHandle =>
        /\ last.res = "ok" => okSet = Pushed
        /\ last.res = "pending" <=>
               (LogIds(last.log, "err") = {} /\ LogIds(last.log, "pending") # {})

C1_Witness ==
    /\ FirstHandle /\ await = "resolved" /\ last.res = "ok"
    /\ nPushed >= 2 /\ scans >= 2 /\ okSet = Pushed

\* C2. Completion liveness: when every operation returns Ready(Ok) after
\* finitely many polls and the Handle is polled again whenever it returned
\* Pending, a live Handle eventually returns Ready(Ok).
C2_CompletionLiveness ==
    (await = "live") ~> (await = "resolved" /\ last.res = "ok")

C2_Witness ==
    /\ await = "resolved" /\ last.res = "ok" /\ scans >= 2 /\ nPushed >= 2

\* C3. Fail-fast: the poll in which an operation j returns Ready(Err(e))
\* returns Ready(Err(e)) with j's error, j is the last operation polled, the
\* Handle is resolved by that poll, and both Vecs are empty afterwards.
C3_FailFast ==
    await # "none" =>
        /\ LogIds(last.log, "err") # {} <=> last.res = "err"
        /\ last.res = "err" =>
             /\ await = "resolved"
             /\ last.log[Len(last.log)] = <<last.err, "err">>
             /\ LogIds(last.log, "err") = {last.err}
             /\ futures = <<>> /\ to_poll = <<>>

C3_Witness ==
    /\ await = "resolved" /\ last.res = "err"
    /\ LogIds(last.log, "pending") # {}
    /\ nPushed >= 2 /\ futures = <<>> /\ to_poll = <<>>

\* C4 as stated: once a Session of a type has been bound and destroyed, a
\* Session of a type with another layout is never handed out.
C4_Original ==
    sess # NoType => \A L \in usedLayouts : L = get_layout(sess)

\* C4. Layout safety: once a Session of type A has been destroyed while its
\* array had a non-zero capacity, every later borrow with a type of another
\* layout fails with WrongLayoutError; a block is only ever held by a Session
\* whose type has the layout the block was allocated for.
C4_LayoutSafety ==
    /\ sess # NoType => \A L \in recLayouts : L = get_layout(sess)
    /\ (ownerAlive /\ sess = NoType) =>
          \A B \in Types : (\E L \in recLayouts : L # get_layout(B)) => WrongLayout(B)
    /\ sess # NoType =>
          LiveBlock(futures_ptr, get_layout(sess), futures_cap) \subseteq heap
    /\ ~lastBorrow.ok => sess = NoType

C4_Witness ==
    /\ ~lastBorrow.ok /\ sess = NoType
    /\ recLayouts = {lastBorrow.old} /\ lastBorrow.new # lastBorrow.old
    /\ data # NoBlock

\* C5. A borrow that fails leaves the Cell as it was, its error carries the
\* recorded layout as old and the requested one as new, and the next borrow
\* with a type of the recorded layout succeeds with the same block and
\* capacity.
BorrowFails == sess = NoType /\ ownerAlive' /\ ~lastBorrow'.ok

C5_FailedBorrowFrame ==
    [][/\ BorrowFails =>
            /\ UNCHANGED <<data, capacity, to_poll, layout, drop_fn>>
            /\ lastBorrow'.old = layout
            /\ lastBorrow'.new = get_layout(lastBorrow'.F)
            /\ lastBorrow'.old # lastBorrow'.new
            /\ \A T \in Types : get_layout(T) = layout => ENABLED BorrowOk(T)
       /\ (~lastBorrow.ok /\ SessionStarts) =>
            /\ get_layout(sess') = lastBorrow.old
            /\ futures_ptr' = data /\ futures_cap' = capacity
            /\ futures' = <<>>]_vars

C5_Witness ==
    /\ ~lastBorrow.ok /\ sess = NoType /\ ownerAlive
    /\ data # NoBlock /\ capacity > 0
    /\ lastBorrow.old = layout /\ lastBorrow.new # layout

\* C6 as stated: the capacity never decreases, a Session starts with the
\* block and capacity the previous one returned, and a Session that pushes no
\* more operations than the capacity it was bound with keeps its block.
C6_Original ==
    [][/\ capacity' >= capacity
       /\ sess' # NoType => bound' = [ptr |-> prevEnd'.ptr, cap |-> prevEnd'.cap]
       /\ (sess' # NoType /\ nPushed' <= bound'.cap) => SameBlock']_vars

\* C6. Reuse invariant: the capacity never decreases, a Session starts with
\* the block and capacity the previous one returned, and a Session that
\* pushes no more operations than the capacity it was bound with, and never
\* reserves beyond the capacity it has, keeps its block and capacity.
C6_Reuse ==
    [][/\ capacity' >= capacity
       /\ sess' # NoType => bound' = [ptr |-> prevEnd'.ptr, cap |-> prevEnd'.cap]
       /\ (sess' # NoType /\ nPushed' <= bound'.cap /\ ~overReserved') => SameBlock']_vars

C6_Witness ==
    /\ sess # NoType /\ bound.cap >= 2 /\ bound.ptr # NoBlock
    /\ nPushed = bound.cap /\ Len(futures) = nPushed /\ SameBlock

\* C7. Cancellation safety: after a Handle was dropped following scans that
\* returned Pending and the Session was dropped, a borrow with the same type
\* succeeds, and the new Session has an empty array and an empty to_poll over
\* the block and capacity the cancelled Session ended with; the first Handle
\* of the new Session polls exactly the operations pushed into it.
C7_CancellationSafety ==
    [][/\ (SessionEnds /\ cancelled) =>
            /\ \A F \in Types : F = sess => ~(WrongLayout(F))'
            /\ to_poll' = <<>> /\ futures' = <<>>
            /\ data' = futures_ptr /\ capacity' = futures_cap /\ data' # NoBlock
       /\ (SessionStarts /\ prevEnd.cancelled) =>
            /\ futures' = <<>> /\ to_poll' = <<>>
            /\ futures_ptr' = prevEnd.ptr /\ futures_cap' = prevEnd.cap
       /\ (prevEnd.cancelled /\ FirstHandle /\ scans = 0 /\ scans' = 1) =>
            /\ Len(to_poll) = nPushed
            /\ {last'.log[k][1] : k \in 1..Len(last'.log)} \subseteq Pushed
            /\ last'.res \in {"ok", "pending"} =>
                 (LogIds(last'.log, "ok") \cup LogIds(last'.log, "pending") = Pushed
                  /\ Len(last'.log) = nPushed)]_vars

C7_Witness ==
    /\ prevEnd.cancelled /\ prevEnd.ptr # NoBlock
    /\ FirstHandle /\ await = "resolved" /\ last.res = "ok" /\ nPushed >= 1
    /\ SameBlock

\* C8. Between sessions to_poll is empty, the block holds no live operation,
\* and data is none if and only if capacity is 0; a block held is a live
\* allocation of exactly capacity slots of the recorded layout.
C8_BetweenSessions ==
    (ownerAlive /\ sess = NoType) =>
        /\ to_poll = <<>> /\ futures = <<>>
        /\ data = NoBlock <=> capacity = 0
        /\ LiveBlock(data, layout, capacity) = heap

C8_Witness ==
    /\ ownerAlive /\ sess = NoType /\ data # NoBlock /\ capacity >= 2
    /\ ~hadHandle /\ nPushed >= 1

\* C9 as stated: borrow never sets layout or drop_fn, the destruction of the
\* first Session ever bound sets them to its type, and once set they are not
\* changed by a later Session.
C9_Original ==
    [][/\ (sess = NoType /\ ownerAlive') => UNCHANGED <<layout, drop_fn>>
       /\ (SessionEnds /\ usedLayouts = {}) =>
            (layout' = get_layout(sess) /\ drop_fn' = sess)
       /\ (drop_fn # NoType /\ ownerAlive') => UNCHANGED <<layout, drop_fn>>]_vars

\* C9. Deferred recording: borrow never sets layout or drop_fn; the
\* destruction of the first Session whose array has a non-zero capacity sets
\* them to its type, the destruction of a Session with capacity 0 records
\* nothing, and once set they are not changed by a later Session.
C9_DeferredRecording ==
    [][/\ (sess = NoType /\ ownerAlive') => UNCHANGED <<layout, drop_fn>>
       /\ (SessionEnds /\ recLayouts = {} /\ futures_cap # 0) =>
            (layout' = get_layout(sess) /\ drop_fn' = sess)
       /\ (SessionEnds /\ futures_cap = 0) => UNCHANGED <<layout, drop_fn>>
       /\ (drop_fn # NoType /\ ownerAlive') => UNCHANGED <<layout, drop_fn>>]_vars

C9_Witness ==
    /\ sess = "A" /\ drop_fn = "C" /\ layout = get_layout("C")
    /\ usedLayouts = {get_layout("B"), get_layout("C")}
    /\ prevEnd.cap > 0 /\ nPushed >= 1

\* C10. No leak and no double free: every live block has exactly one owner
\* (the Session while there is one, and then the Cell's data is none; the
\* Cell otherwise), a Cell that holds a block has a drop_fn for the layout
\* the block was allocated with, layout is set iff drop_fn is, no release is
\* undefined, and after the Cell is dropped no block is live.
C10_NoLeakNoDoubleFree ==
    /\ ~ub
    /\ ownerAlive =>
        /\ sess # NoType => data = NoBlock
        /\ data # NoBlock => drop_fn # NoType
        /\ layout # NoLayout <=> drop_fn # NoType
        /\ drop_fn # NoType => layout = get_layout(drop_fn)
        /\ heap = IF sess # NoType
                  THEN LiveBlock(futures_ptr, get_layout(sess), futures_cap)
                  ELSE LiveBlock(data, layout, capacity)
    /\ ~ownerAlive => heap = {}

C10_Witness ==
    /\ ~ownerAlive /\ data # NoBlock /\ capacity >= 2 /\ heap = {}
    /\ prevEnd.cancelled

\* C11. Idempotent emptiness: in a Session into which no operation was
\* pushed, the first poll of the Handle returns Ready(Ok), it polls no
\* operation and the Handle never returns Pending, whatever Sessions the Cell
\* has had before.
C11_IdempotentEmptiness ==
    (await # "none" /\ nPushed = 0) =>
        /\ scans <= 1
        /\ scans = 1 =>
             /\ await = "resolved" /\ last.res = "ok"
             /\ last.log = <<>>
             /\ futures = <<>> /\ to_poll = <<>>

C11_Witness ==
    /\ await = "resolved" /\ nPushed = 0 /\ scans = 1 /\ last.res = "ok"
    /\ prevEnd.cancelled /\ bound.ptr # NoBlock /\ bound.cap >= 2

\* ---- one poll of a Handle, seen as a step --------------------------------
PollStep == await = "live" /\ scans' = scans + 1
Slots == 1..Len(futures)
Polled(log) == {log[k][1] : k \in 1..Len(log)}

\* The number of the poll on which the operation in slot k returned
\* Ready(Ok), the scan just made included (log is its log); 0 if it has not.
ReadyOn(k, log) ==
    IF futures[k].done THEN futures[k].polls
    ELSE IF futures[k].id \in LogIds(log, "ok") THEN futures[k].polls + 1
    ELSE 0

\* C12. Scan count: when no operation fails, an operation not yet ready has
\* been polled once in each scan of the Handle, the j-th poll of the Handle
\* returns Pending exactly when some operation is not ready on its j-th poll,
\* and returns Ready(Ok) exactly when j is the largest of the numbers n_i of
\* the polls on which the operations returned Ready(Ok).
C12_ScanCount ==
    [][(PollStep /\ last'.res # "err") =>
         /\ \A k \in Slots :
               IF futures[k].done THEN futures[k].polls \in 1..scans
               ELSE futures[k].polls = scans
         /\ last'.res = "pending" <=> (\E k \in Slots : ReadyOn(k, last'.log) = 0)
         /\ last'.res = "ok" <=> (\A k \in Slots : ReadyOn(k, last'.log) \in 1..scans')
         /\ (last'.res = "ok" /\ Slots # {}) =>
               (\E k \in Slots : ReadyOn(k, last'.log) = scans')]_vars

\* Three operations, two ready on their first poll and one on its second: the
\* Handle has returned Ready(Ok) on its second poll, which polled one operation.
C12_Witness ==
    /\ FirstHandle /\ await = "resolved" /\ last.res = "ok"
    /\ nPushed = 3 /\ okSet = Pushed /\ scans = 2 /\ Len(last.log) = 1

\* C13. Index validity: while there is a Session, every entry of to_poll is
\* less than the length of futures, the entries are pairwise distinct, each
\* refers to an operation that has not returned Ready, and no scan has read
\* futures out of bounds.
C13_IndexValidity ==
    sess # NoType =>
        /\ \A i \in 1..Len(to_poll) :
              /\ to_poll[i] \in 0..(Len(futures) - 1)
              /\ ~futures[to_poll[i] + 1].done
        /\ \A i, j \in 1..Len(to_poll) : to_poll[i] = to_poll[j] => i = j
        /\ last.res # "ub"

\* A second Handle of a Session, after a reserve beyond the capacity, has
\* returned Pending: of its two operations the first is finished.
C13_Witness ==
    /\ hadHandle /\ overReserved /\ await = "live" /\ scans = 1
    /\ Len(futures) = 2 /\ futures[1].done /\ to_poll = <<1>>

\* C14 as stated: throughout a Session the length of futures is the length
\* of to_poll plus the number of operations that returned Ready(Ok) and were
\* removed from to_poll during the Session.
C14_Original ==
    sess # NoType => Len(futures) = Len(to_poll) + Cardinality(okSet)

\* C14. Length accounting: throughout a Session the length of futures is the
\* length of to_poll plus the number of operations that returned Ready(Ok)
\* in the scans of the current Handle and are still held in futures; a poll
\* that returns Pending adds to that number the operations that returned
\* Ready(Ok) in it; when a Handle resolves or is dropped, futures and to_poll
\* are both emptied and the count starts again at 0.
DoneSlots == {k \in Slots : futures[k].done}

C14_LengthAccounting ==
    [][/\ sess # NoType =>
            /\ Len(futures) = Len(to_poll) + Cardinality(DoneSlots)
            /\ {futures[k].id : k \in DoneSlots} \subseteq okSet
            /\ await = "none" => DoneSlots = {}
            /\ await = "resolved" => (futures = <<>> /\ to_poll = <<>>)
       /\ (PollStep /\ last'.res = "pending") =>
            /\ Len(futures') = Len(futures)
            /\ Len(to_poll') = Len(to_poll) - Cardinality(LogIds(last'.log, "ok"))
       /\ (await # "none" /\ await' = "none") =>
            (futures' = <<>> /\ to_poll' = <<>>)]_vars

\* A second Handle has returned Pending with one of its two operations
\* finished, after the first Handle of the Session resolved one operation.
C14_Witness ==
    /\ hadHandle /\ await = "live" /\ scans = 1
    /\ Len(futures) = 2 /\ Len(to_poll) = 1 /\ Cardinality(okSet) = 2

\* C15. Scan coverage: a scan in which no operation fails polls every
\* operation whose index is in to_poll at its start exactly once, and no
\* other.
C15_ScanCoverage ==
    [][(PollStep /\ last'.res \in {"ok", "pending"}) =>
         /\ Len(last'.log) = Len(to_poll)
         /\ \A i, j \in 1..Len(last'.log) :
               last'.log[i][1] = last'.log[j][1] => i = j
         /\ Polled(last'.log) = {futures[to_poll[i] + 1].id : i \in 1..Len(to_poll)}]_vars

\* The scan polled operation 0 (Ok), then operation 2, whose index the
\* removal moved into position 0 (Pending), then operation 1 (Ok).
C15_Witness ==
    /\ await = "live" /\ scans = 1
    /\ last.log = << <<0, "ok">>, <<2, "pending">>, <<1, "ok">> >>

\* C16. No poll after completion: a scan polls only operations pushed after
\* the previous Handle of the Session was dropped that have not returned
\* Ready(Ok) in an earlier scan, each at most once, and none after one that
\* returned Ready(Err); after a scan that returned Pending, to_poll holds the
\* operations it held before less those that returned Ready(Ok); after a scan
\* that returned Ready nothing is left to poll.
ToPollIds(tp, futs) == {futs[tp[i] + 1].id : i \in 1..Len(tp)}

C16_NoPollAfterReady ==
    [][/\ PollStep =>
            /\ Polled(last'.log) \subseteq (discarded..(nPushed - 1)) \ okSet
            /\ \A i, j \in 1..Len(last'.log) :
                  last'.log[i][1] = last'.log[j][1] => i = j
            /\ \A k \in 1..Len(last'.log) :
                  /\ last'.log[k][2] \in Outcomes
                  /\ last'.log[k][2] = "err" => k = Len(last'.log)
            /\ IF last'.res = "pending"
               THEN ToPollIds(to_poll', futures') =
                        ToPollIds(to_poll, futures) \ LogIds(last'.log, "ok")
               ELSE to_poll' = <<>> /\ futures' = <<>>
       /\ await = "none" => okSet \subseteq 0..(discarded - 1)
       /\ okSet \subseteq Pushed]_vars

\* The second Handle of a Session, whose first Handle ended without operation
\* 0 returning Ready(Ok): operation 1 returned Ready(Ok) in its first scan
\* and its second scan polled operation 2 only.
C16_Witness ==
    /\ discarded = 1 /\ nPushed = 3 /\ await = "live" /\ scans = 2
    /\ okSet = {1} /\ last.log = << <<2, "pending">> >>

\* C17. First failure in scan order: whatever the operations answer, if some
\* operations of to_poll answer Ready(Err) in a scan, the scan returns
\* Ready(Err) with the error of the first of them it reaches: the scan starts
\* at the first entry of to_poll, every operation polled before the failing
\* one answered Ok or Pending, the failing one is the last polled, and the
\* other operations, failing or not, are not polled in that scan.
Failing(o) == {id \in ToPollIds(to_poll, futures) : o[id] = "err"}
\* The answers that agree with a scan's log: those the log records for the
\* operations polled, and any answer for the others.
AnswerIn(log, id) == log[CHOOSE k \in 1..Len(log) : log[k][1] = id][2]
Answers(log) ==
    {[id \in Unfinished(futures) |->
         IF id \in Polled(log) THEN AnswerIn(log, id) ELSE rest[id]] :
       rest \in [Unfinished(futures) \ Polled(log) -> Outcomes]}

C17_FirstFailure ==
    [][PollStep => \A o \in Answers(last'.log) :
         (Failing(o) # {} /\ PollAwait(o)) =>
             LET log == last'.log
                 n == Len(log)
             IN  /\ last'.res = "err" /\ last'.err \in Failing(o)
                 /\ n >= 1 /\ log[n] = <<last'.err, "err">>
                 /\ log[1][1] = futures[to_poll[1] + 1].id
                 /\ \A k \in 1..(n - 1) :
                       log[k][1] \notin Failing(o) /\ log[k][2] = o[log[k][1]]
                 /\ Polled(log) \cap Failing(o) = {last'.err}
                 /\ n <= Len(to_poll)]_vars

\* Operation 0 returned Ok, its removal moved operation 2 before operation
\* 1, operation 2 failed and operation 1, pushed before it, was not polled.
C17_Witness ==
    /\ await = "resolved" /\ last.res = "err" /\ last.err = 2 /\ nPushed = 3
    /\ last.log = << <<0, "ok">>, <<2, "err">> >>

\* C18 as stated: a Handle of a Session returns Ready(Ok) only if every
\* operation pushed into the Session since its bind has returned Ready(Ok).
C18_Original ==
    (await = "resolved" /\ last.res = "ok") => okSet = Pushed

\* C18. A Handle of a Session returns Ready(Ok) only if every operation
\* pushed into the Session since its previous Handle was dropped (since the
\* bind, for its first Handle) has returned Ready(Ok); a Handle holds no
\* operation pushed before an earlier Handle was dropped.
C18_OkOnlyIfAllOk ==
    /\ (await = "resolved" /\ last.res = "ok") =>
          /\ discarded..(nPushed - 1) \subseteq okSet
          /\ ~hadHandle => okSet = Pushed
    /\ await # "none" => ToPollIds(to_poll, futures) \subseteq discarded..(nPushed - 1)

\* The second Handle of a Session has returned Ready(Ok) for the operations
\* pushed after the first Handle was dropped while operations were pending.
C18_Witness ==
    /\ hadHandle /\ cancelled /\ await = "resolved" /\ last.res = "ok"
    /\ discarded >= 1 /\ nPushed > discarded
    /\ okSet = discarded..(nPushed - 1)
====
